---- MODULE Spec2Model ----
(***************************************************************************)
(* Model of Cursors_FIX.py: the polling loop main(), the sampler           *)
(* get_cursor_handle() and the repair action force_reload_cursors().       *)
(*                                                                         *)
(* Time is counted in milliseconds (the source uses float seconds:         *)
(* 0.02 s = 20, 0.10 s = 100).  Python's None is the value None == -1;     *)
(* cursor handles are naturals, 0 being the NULL handle.                   *)
(***************************************************************************)
EXTENDS Integers, Sequences, FiniteSets

\* ---------------------------------------------------------------- bounds
\* the monotonic clock is explored up to MaxClock ms
MaxClock == 160
\* cursor handles the OS reports are 0 (NULL) .. MaxHandle
MaxHandle == 2

\* ----------------------------------------------------- program constants
CURSOR_SHOWING == 1
poll_interval_sec == 20
\* cooldown_sec given the value of the poll interval
cooldown_sec_Short == poll_interval_sec
cooldown_sec == 100
ALL_OCR_IDS ==
  <<32512, 32513, 32514, 32515, 32516, 32642, 32643,
    32644, 32645, 32646, 32648, 32649, 32650>>

None == -1

\* time.sleep(poll_interval_sec) returns after at least the interval; the
\* values are the delays (sleep + scheduling) explored between two readings
\* of the clock
SleepTimes == {poll_interval_sec, 2 * poll_interval_sec, cooldown_sec}
\* time a call of force_reload_cursors() may take
RepairTimes == {0, 60}
\* the flags word GetCursorInfo fills in: 0 hidden, 1 CURSOR_SHOWING,
\* 2 CURSOR_SUPPRESSED
FlagValues == {0, 1, 2}
Handles == 0 .. MaxHandle

VARIABLES
  clock,            \* time.monotonic(), the real time
  pc,               \* position of the single thread
  now, h,           \* locals of main(): the tick's time and sample
  last_h,           \* main(): last recorded handle, None before the first
  cooldown_until,   \* main(): the cooldown deadline
  arrow,            \* force_reload_cursors(): LoadCursorW result, None unset
  idx,              \* force_reload_cursors(): position in ALL_OCR_IDS
  copy,             \* force_reload_cursors(): CopyIcon result of the iteration
  installed,        \* arguments of the iteration's SetSystemCursor call, or <<>>
  result,           \* return value of force_reload_cursors(), "unset" outside
  nCopy,            \* CopyIcon calls made by the current repair call
  nInstall,         \* SetSystemCursor calls made by the current repair call
  installFailed,    \* ... of which the OS reported a failure
  reloaded,         \* SystemParametersInfoW of the current call: "no","ok","fail"
  tickKind,         \* what the latest tick did
  prev_h,           \* the sample of the tick before the latest
  prev_kind,        \* tickKind of the tick before the latest
  last_repair_now,  \* `now` of the latest tick whose repair call returned
  last_result,      \* what the latest returned repair call returned
  last_repair_ret,  \* the clock when the latest repair call returned
  repair_calls,     \* calls of force_reload_cursors() so far
  signal,           \* the latest GetCursorInfo succeeded with CURSOR_SHOWING set
  changed,          \* some tick so far compared a sample unequal to last_h
  osc,              \* ticks so far are the first osc of A, B, A, A (-1: not)
  scen,             \* ticks so far are the first scen of the 20 ms scenario
  seen,             \* get_cursor_handle() has returned a non-None value
  shadow            \* the loop state replayed from times and samples alone

vars == <<clock, pc, now, h, last_h, cooldown_until, arrow, idx, copy,
          installed, result, nCopy, nInstall, installFailed, reloaded,
          tickKind, prev_h, prev_kind, last_repair_now, last_result,
          last_repair_ret, repair_calls, signal, changed, osc, scen, seen,
          shadow>>

loopState == <<last_h, cooldown_until>>
repairVars == <<arrow, idx, copy, installed, result, nCopy, nInstall,
                installFailed, reloaded>>
tickHistory == <<tickKind, prev_h, prev_kind, signal, changed, osc, scen, seen,
                 shadow>>
repairHistory == <<last_repair_now, last_result, last_repair_ret>>

\* get_cursor_handle without the test of CURSOR_SHOWING
get_cursor_handle_NoFlag(ok, flags, hCursor) ==
  IF ~ok THEN None ELSE hCursor

\* get_cursor_handle(): ok is GetCursorInfo's return value, flags and hCursor
\* the fields it filled in
get_cursor_handle(ok, flags, hCursor) ==
  IF ~ok THEN None
  ELSE IF (flags \div CURSOR_SHOWING) % 2 = 0 THEN None
  ELSE hCursor

\* Python truthiness of the sample: `not h`
Falsy(x) == x = None \/ x = 0

\* Init with the first deadline one cooldown after the start
Init_DeadlineAhead ==
  /\ clock = 0
  /\ pc = "loop"
  /\ now = 0
  /\ h = None
  /\ last_h = None
  /\ cooldown_until = cooldown_sec
  /\ arrow = None
  /\ idx = 0
  /\ copy = None
  /\ installed = <<>>
  /\ result = "unset"
  /\ nCopy = 0
  /\ nInstall = 0
  /\ installFailed = FALSE
  /\ reloaded = "no"
  /\ tickKind = "start"
  /\ prev_h = None
  /\ prev_kind = "start"
  /\ last_repair_now = None
  /\ last_result = "unset"
  /\ last_repair_ret = None
  /\ repair_calls = 0
  /\ signal = FALSE
  /\ changed = FALSE
  /\ osc = 0
  /\ scen = 0
  /\ seen = FALSE
  /\ shadow = [last |-> None, until |-> 0, repair |-> FALSE]

Init ==
  /\ clock = 0
  /\ pc = "loop"
  /\ now = 0
  /\ h = None
  /\ last_h = None
  /\ cooldown_until = 0
  /\ arrow = None
  /\ idx = 0
  /\ copy = None
  /\ installed = <<>>
  /\ result = "unset"
  /\ nCopy = 0
  /\ nInstall = 0
  /\ installFailed = FALSE
  /\ reloaded = "no"
  /\ tickKind = "start"
  /\ prev_h = None
  /\ prev_kind = "start"
  /\ last_repair_now = None
  /\ last_result = "unset"
  /\ last_repair_ret = None
  /\ repair_calls = 0
  /\ signal = FALSE
  /\ changed = FALSE
  /\ osc = 0
  /\ scen = 0
  /\ seen = FALSE
  /\ shadow = [last |-> None, until |-> 0, repair |-> FALSE]

\* one iteration of `while True` as a function of the tick's time and sample
\* alone, the return value of force_reload_cursors() being discarded
DetLoop(st, t, s) ==
  IF Falsy(s) THEN [st EXCEPT !.repair = FALSE]
  ELSE IF st.last = None THEN [last |-> s, until |-> st.until, repair |-> FALSE]
  ELSE IF s # st.last /\ t >= st.until
    THEN [last |-> s, until |-> t + cooldown_sec, repair |-> TRUE]
  ELSE [last |-> s, until |-> st.until, repair |-> FALSE]

\* what GetCursorInfo reported: the call succeeded and the flags word has
\* the CURSOR_SHOWING bit
Query(ok, flags) == signal' = (ok /\ flags % 2 = 1)

\* progress of the first ticks through the samples A, B, A, A (A # B, both
\* handles), the change B -> A seen less than cooldown_sec after the tick of
\* the change A -> B; -1 when the ticks so far are no such prefix
OscNext(t, s) ==
  IF osc = 0 /\ ~Falsy(s) THEN 1
  ELSE IF osc = 1 /\ ~Falsy(s) /\ s # h THEN 2
  ELSE IF osc = 2 /\ s = prev_h /\ t - now < cooldown_sec THEN 3
  ELSE IF osc = 3 /\ s = h THEN 4
  ELSE -1

\* progress of the first ticks through the samples None, A, A, B, A, A
\* (A # B, both handles) read poll_interval_sec apart; -1 when the ticks so
\* far are no such prefix
ScenNext(t, s) ==
  IF t - now # poll_interval_sec THEN -1
  ELSE IF scen = 0 /\ s = None THEN 1
  ELSE IF scen = 1 /\ ~Falsy(s) THEN 2
  ELSE IF scen = 2 /\ s = h THEN 3
  ELSE IF scen = 3 /\ ~Falsy(s) /\ s # h THEN 4
  ELSE IF scen = 4 /\ s = prev_h THEN 5
  ELSE IF scen = 5 /\ s = h THEN 6
  ELSE -1

\* the head of every iteration: sleep, read the clock, sample the cursor
Sample(t, s, kind) ==
  /\ pc = "loop"
  /\ t <= MaxClock
  /\ clock' = t
  /\ now' = t
  /\ h' = s
  /\ prev_h' = h
  /\ prev_kind' = tickKind
  /\ tickKind' = kind
  /\ seen' = (seen \/ s # None)
  /\ shadow' = DetLoop(shadow, t, s)
  /\ changed' = (changed \/ (last_h # None /\ ~Falsy(s) /\ s # last_h))
  /\ osc' = OscNext(t, s)
  /\ scen' = ScenNext(t, s)
  /\ UNCHANGED repair_calls

\* TickSkip recording a hidden cursor as "no cursor"
TickSkip_Forget ==
  \E d \in SleepTimes, ok \in BOOLEAN, fl \in FlagValues, hc \in Handles :
    LET s == get_cursor_handle(ok, fl, hc) IN
    /\ Sample(clock + d, s, "skip")
    /\ Query(ok, fl)
    /\ Falsy(s)
    /\ last_h' = IF s = None THEN None ELSE last_h
    /\ UNCHANGED <<pc, cooldown_until, repairHistory>>
    /\ UNCHANGED repairVars

\* `if not h: continue`
TickSkip ==
  \E d \in SleepTimes, ok \in BOOLEAN, fl \in FlagValues, hc \in Handles :
    LET s == get_cursor_handle(ok, fl, hc) IN
    /\ Sample(clock + d, s, "skip")
    /\ Query(ok, fl)
    /\ Falsy(s)
    /\ UNCHANGED <<pc, last_h, cooldown_until, repairHistory>>
    /\ UNCHANGED repairVars

\* TickFirst treating the first sample as a change
TickFirst_Repairs ==
  \E d \in SleepTimes, ok \in BOOLEAN, fl \in FlagValues, hc \in Handles :
    LET s == get_cursor_handle(ok, fl, hc) IN
    /\ Sample(clock + d, s, "first")
    /\ Query(ok, fl)
    /\ ~Falsy(s)
    /\ last_h = None
    /\ pc' = "load"
    /\ UNCHANGED <<last_h, cooldown_until, repairHistory>>
    /\ UNCHANGED repairVars

\* `if last_h is None: last_h = h; continue`
TickFirst ==
  \E d \in SleepTimes, ok \in BOOLEAN, fl \in FlagValues, hc \in Handles :
    LET s == get_cursor_handle(ok, fl, hc) IN
    /\ Sample(clock + d, s, "first")
    /\ Query(ok, fl)
    /\ ~Falsy(s)
    /\ last_h = None
    /\ last_h' = s
    /\ UNCHANGED <<pc, cooldown_until, repairHistory>>
    /\ UNCHANGED repairVars

\* TickSame restarting the cooldown
TickSame_Extends ==
  \E d \in SleepTimes, ok \in BOOLEAN, fl \in FlagValues, hc \in Handles :
    LET s == get_cursor_handle(ok, fl, hc) IN
    /\ Sample(clock + d, s, "same")
    /\ Query(ok, fl)
    /\ ~Falsy(s)
    /\ last_h # None
    /\ s = last_h
    /\ last_h' = s
    /\ cooldown_until' = clock + d + cooldown_sec
    /\ UNCHANGED <<pc, repairHistory>>
    /\ UNCHANGED repairVars

\* h == last_h: falls through to `last_h = h`
TickSame ==
  \E d \in SleepTimes, ok \in BOOLEAN, fl \in FlagValues, hc \in Handles :
    LET s == get_cursor_handle(ok, fl, hc) IN
    /\ Sample(clock + d, s, "same")
    /\ Query(ok, fl)
    /\ ~Falsy(s)
    /\ last_h # None
    /\ s = last_h
    /\ last_h' = s
    /\ UNCHANGED <<pc, cooldown_until, repairHistory>>
    /\ UNCHANGED repairVars

\* TickAbsorbed without `last_h = h` after the else branch
TickAbsorbed_Keeps ==
  \E d \in SleepTimes, ok \in BOOLEAN, fl \in FlagValues, hc \in Handles :
    LET s == get_cursor_handle(ok, fl, hc) IN
    /\ Sample(clock + d, s, "absorbed")
    /\ Query(ok, fl)
    /\ ~Falsy(s)
    /\ last_h # None
    /\ s # last_h
    /\ ~(clock + d >= cooldown_until)
    /\ UNCHANGED <<pc, last_h, cooldown_until, repairHistory>>
    /\ UNCHANGED repairVars

\* TickAbsorbed restarting the cooldown on every absorbed change
TickAbsorbed_Extends ==
  \E d \in SleepTimes, ok \in BOOLEAN, fl \in FlagValues, hc \in Handles :
    LET s == get_cursor_handle(ok, fl, hc) IN
    /\ Sample(clock + d, s, "absorbed")
    /\ Query(ok, fl)
    /\ ~Falsy(s)
    /\ last_h # None
    /\ s # last_h
    /\ ~(clock + d >= cooldown_until)
    /\ last_h' = s
    /\ cooldown_until' = clock + d + cooldown_sec
    /\ UNCHANGED <<pc, repairHistory>>
    /\ UNCHANGED repairVars

\* TickAbsorbed with the deadline itself still inside the cooldown
TickAbsorbed_Inclusive ==
  \E d \in SleepTimes, ok \in BOOLEAN, fl \in FlagValues, hc \in Handles :
    LET s == get_cursor_handle(ok, fl, hc) IN
    /\ Sample(clock + d, s, "absorbed")
    /\ Query(ok, fl)
    /\ ~Falsy(s)
    /\ last_h # None
    /\ s # last_h
    /\ clock + d <= cooldown_until
    /\ last_h' = s
    /\ UNCHANGED <<pc, cooldown_until, repairHistory>>
    /\ UNCHANGED repairVars

\* h != last_h and now < cooldown_until: the else branch, then `last_h = h`
TickAbsorbed ==
  \E d \in SleepTimes, ok \in BOOLEAN, fl \in FlagValues, hc \in Handles :
    LET s == get_cursor_handle(ok, fl, hc) IN
    /\ Sample(clock + d, s, "absorbed")
    /\ Query(ok, fl)
    /\ ~Falsy(s)
    /\ last_h # None
    /\ s # last_h
    /\ ~(clock + d >= cooldown_until)
    /\ last_h' = s
    /\ UNCHANGED <<pc, cooldown_until, repairHistory>>
    /\ UNCHANGED repairVars

\* TickRepair without the test `now >= cooldown_until`
TickRepair_NoCooldown ==
  \E d \in SleepTimes, ok \in BOOLEAN, fl \in FlagValues, hc \in Handles :
    LET s == get_cursor_handle(ok, fl, hc) IN
    /\ Sample(clock + d, s, "repair")
    /\ Query(ok, fl)
    /\ ~Falsy(s)
    /\ last_h # None
    /\ s # last_h
    /\ pc' = "load"
    /\ UNCHANGED <<last_h, cooldown_until, repairHistory>>
    /\ UNCHANGED repairVars

\* h != last_h and now >= cooldown_until: force_reload_cursors() is called
TickRepair ==
  \E d \in SleepTimes, ok \in BOOLEAN, fl \in FlagValues, hc \in Handles :
    LET s == get_cursor_handle(ok, fl, hc) IN
    /\ Sample(clock + d, s, "repair")
    /\ Query(ok, fl)
    /\ ~Falsy(s)
    /\ last_h # None
    /\ s # last_h
    /\ clock + d >= cooldown_until
    /\ pc' = "load"
    /\ UNCHANGED <<last_h, cooldown_until, repairHistory>>
    /\ UNCHANGED repairVars

\* LoadCursorFail without the `return False`: the loop runs on a NULL arrow
LoadCursorFail_Continues ==
  /\ pc = "load"
  /\ arrow' = 0
  /\ idx' = 1
  /\ pc' = "roles"
  /\ repair_calls' = repair_calls + 1
  /\ UNCHANGED <<clock, now, h, last_h, cooldown_until, copy, installed,
                 result, nCopy, nInstall, installFailed, reloaded,
                 tickHistory, repairHistory>>

\* LoadCursorFail ending the process instead of returning False
LoadCursorFail_Raises ==
  /\ pc = "load"
  /\ arrow' = 0
  /\ result' = "False"
  /\ pc' = "halted"
  /\ repair_calls' = repair_calls + 1
  /\ UNCHANGED <<clock, now, h, last_h, cooldown_until, idx, copy, installed,
                 nCopy, nInstall, installFailed, reloaded, tickHistory,
                 repairHistory>>

\* arrow = LoadCursorW(0, IDC_ARROW) fails: return False
LoadCursorFail ==
  /\ pc = "load"
  /\ arrow' = 0
  /\ result' = "False"
  /\ pc' = "ret"
  /\ repair_calls' = repair_calls + 1
  /\ UNCHANGED <<clock, now, h, last_h, cooldown_until, idx, copy, installed,
                 nCopy, nInstall, installFailed, reloaded, tickHistory,
                 repairHistory>>

\* arrow = LoadCursorW(0, IDC_ARROW) succeeds: enter the for loop
LoadCursorOk ==
  /\ pc = "load"
  /\ arrow' = 1
  /\ idx' = 1
  /\ pc' = "roles"
  /\ repair_calls' = repair_calls + 1
  /\ UNCHANGED <<clock, now, h, last_h, cooldown_until, copy, installed,
                 result, nCopy, nInstall, installFailed, reloaded,
                 tickHistory, repairHistory>>

\* RoleStep installing the shared arrow instead of a copy of it
RoleStep_SharedArrow ==
  /\ pc = "roles"
  /\ idx <= Len(ALL_OCR_IDS)
  /\ \E copyOk \in BOOLEAN, installOk \in BOOLEAN :
       /\ copy' = IF copyOk THEN arrow + idx ELSE 0
       /\ installed' = IF copyOk THEN <<arrow, ALL_OCR_IDS[idx]>>
                       ELSE <<>>
       /\ nCopy' = nCopy + 1
       /\ nInstall' = IF copyOk THEN nInstall + 1 ELSE nInstall
       /\ installFailed' = (installFailed \/ (copyOk /\ ~installOk))
  /\ idx' = idx + 1
  /\ UNCHANGED <<clock, pc, now, h, last_h, cooldown_until, arrow, result,
                 reloaded, repair_calls, tickHistory, repairHistory>>

\* RoleStep leaving the for loop at the first install that fails
RoleStep_Break ==
  /\ pc = "roles"
  /\ idx <= Len(ALL_OCR_IDS)
  /\ \E copyOk \in BOOLEAN, installOk \in BOOLEAN :
       /\ copy' = IF copyOk THEN arrow + idx ELSE 0
       /\ installed' = IF copyOk THEN <<arrow + idx, ALL_OCR_IDS[idx]>>
                       ELSE <<>>
       /\ nCopy' = nCopy + 1
       /\ nInstall' = IF copyOk THEN nInstall + 1 ELSE nInstall
       /\ installFailed' = (installFailed \/ (copyOk /\ ~installOk))
       /\ idx' = IF copyOk /\ ~installOk THEN Len(ALL_OCR_IDS) + 1
                 ELSE idx + 1
  /\ UNCHANGED <<clock, pc, now, h, last_h, cooldown_until, arrow, result,
                 reloaded, repair_calls, tickHistory, repairHistory>>

\* one iteration of `for ocr_id in ALL_OCR_IDS`
RoleStep ==
  /\ pc = "roles"
  /\ idx <= Len(ALL_OCR_IDS)
  /\ \E copyOk \in BOOLEAN, installOk \in BOOLEAN :
       /\ copy' = IF copyOk THEN arrow + idx ELSE 0
       /\ installed' = IF copyOk THEN <<arrow + idx, ALL_OCR_IDS[idx]>>
                       ELSE <<>>
       /\ nCopy' = nCopy + 1
       /\ nInstall' = IF copyOk THEN nInstall + 1 ELSE nInstall
       /\ installFailed' = (installFailed \/ (copyOk /\ ~installOk))
  /\ idx' = idx + 1
  /\ UNCHANGED <<clock, pc, now, h, last_h, cooldown_until, arrow, result,
                 reloaded, repair_calls, tickHistory, repairHistory>>

\* Reload issued from inside the for loop
Reload_Early ==
  /\ pc = "roles"
  /\ idx > 1
  /\ \E ok \in BOOLEAN, dur \in RepairTimes :
       /\ reloaded' = IF ok THEN "ok" ELSE "fail"
       /\ result' = IF ok THEN "True" ELSE "False"
       /\ clock' = clock + dur
  /\ pc' = "ret"
  /\ UNCHANGED <<now, h, last_h, cooldown_until, arrow, idx, copy, installed,
                 nCopy, nInstall, installFailed, repair_calls, tickHistory,
                 repairHistory>>

\* Reload reporting failure when an install had failed
Reload_Strict ==
  /\ pc = "roles"
  /\ idx > Len(ALL_OCR_IDS)
  /\ \E ok \in BOOLEAN, dur \in RepairTimes :
       /\ reloaded' = IF ok THEN "ok" ELSE "fail"
       /\ result' = IF ok /\ ~installFailed THEN "True" ELSE "False"
       /\ clock' = clock + dur
  /\ pc' = "ret"
  /\ UNCHANGED <<now, h, last_h, cooldown_until, arrow, idx, copy, installed,
                 nCopy, nInstall, installFailed, repair_calls, tickHistory,
                 repairHistory>>

\* SystemParametersInfoW(SPI_SETCURSORS, 0, None, 0) after the loop
Reload ==
  /\ pc = "roles"
  /\ idx > Len(ALL_OCR_IDS)
  /\ \E ok \in BOOLEAN, dur \in RepairTimes :
       /\ reloaded' = IF ok THEN "ok" ELSE "fail"
       /\ result' = IF ok THEN "True" ELSE "False"
       /\ clock' = clock + dur
  /\ pc' = "ret"
  /\ UNCHANGED <<now, h, last_h, cooldown_until, arrow, idx, copy, installed,
                 nCopy, nInstall, installFailed, repair_calls, tickHistory,
                 repairHistory>>

\* RepairReturn taking the deadline from a fresh reading of the clock
RepairReturn_FromClock ==
  /\ pc = "ret"
  /\ cooldown_until' = clock + cooldown_sec
  /\ last_h' = h
  /\ last_repair_now' = now
  /\ last_result' = result
  /\ last_repair_ret' = clock
  /\ pc' = "loop"
  /\ arrow' = None
  /\ idx' = 0
  /\ copy' = None
  /\ installed' = <<>>
  /\ result' = "unset"
  /\ nCopy' = 0
  /\ nInstall' = 0
  /\ installFailed' = FALSE
  /\ reloaded' = "no"
  /\ UNCHANGED <<clock, now, h, repair_calls>>
  /\ UNCHANGED tickHistory

\* RepairReturn without `last_h = h`
RepairReturn_Keeps ==
  /\ pc = "ret"
  /\ cooldown_until' = now + cooldown_sec
  /\ last_h' = last_h
  /\ last_repair_now' = now
  /\ last_result' = result
  /\ last_repair_ret' = clock
  /\ pc' = "loop"
  /\ arrow' = None
  /\ idx' = 0
  /\ copy' = None
  /\ installed' = <<>>
  /\ result' = "unset"
  /\ nCopy' = 0
  /\ nInstall' = 0
  /\ installFailed' = FALSE
  /\ reloaded' = "no"
  /\ UNCHANGED <<clock, now, h, repair_calls>>
  /\ UNCHANGED tickHistory

\* RepairReturn starting the cooldown only when the repair succeeded
RepairReturn_OnSuccess ==
  /\ pc = "ret"
  /\ cooldown_until' = IF result = "True" THEN now + cooldown_sec
                       ELSE cooldown_until
  /\ last_h' = h
  /\ last_repair_now' = now
  /\ last_result' = result
  /\ last_repair_ret' = clock
  /\ pc' = "loop"
  /\ arrow' = None
  /\ idx' = 0
  /\ copy' = None
  /\ installed' = <<>>
  /\ result' = "unset"
  /\ nCopy' = 0
  /\ nInstall' = 0
  /\ installFailed' = FALSE
  /\ reloaded' = "no"
  /\ UNCHANGED <<clock, now, h, repair_calls>>
  /\ UNCHANGED tickHistory

\* RepairReturn dropping the tracked handle when the repair failed
RepairReturn_Reset ==
  /\ pc = "ret"
  /\ cooldown_until' = now + cooldown_sec
  /\ last_h' = IF result = "False" THEN None ELSE h
  /\ last_repair_now' = now
  /\ last_result' = result
  /\ last_repair_ret' = clock
  /\ pc' = "loop"
  /\ arrow' = None
  /\ idx' = 0
  /\ copy' = None
  /\ installed' = <<>>
  /\ result' = "unset"
  /\ nCopy' = 0
  /\ nInstall' = 0
  /\ installFailed' = FALSE
  /\ reloaded' = "no"
  /\ UNCHANGED <<clock, now, h, repair_calls>>
  /\ UNCHANGED tickHistory

\* back in main(): cooldown_until = now + cooldown_sec, then last_h = h
RepairReturn ==
  /\ pc = "ret"
  /\ cooldown_until' = now + cooldown_sec
  /\ last_h' = h
  /\ last_repair_now' = now
  /\ last_result' = result
  /\ last_repair_ret' = clock
  /\ pc' = "loop"
  /\ arrow' = None
  /\ idx' = 0
  /\ copy' = None
  /\ installed' = <<>>
  /\ result' = "unset"
  /\ nCopy' = 0
  /\ nInstall' = 0
  /\ installFailed' = FALSE
  /\ reloaded' = "no"
  /\ UNCHANGED <<clock, now, h, repair_calls>>
  /\ UNCHANGED tickHistory

Next ==
  \/ TickSkip
  \/ TickFirst
  \/ TickSame
  \/ TickAbsorbed
  \/ TickRepair
  \/ LoadCursorFail
  \/ LoadCursorOk
  \/ RoleStep
  \/ Reload
  \/ RepairReturn

Spec == Init /\ [][Next]_vars

\* the single thread always runs: the interpreter executes the next statement
FairSpec == Spec /\ WF_vars(Next)

TypeOK ==
  /\ clock \in 0 .. (MaxClock + 60)
  /\ pc \in {"loop", "load", "roles", "ret"}
  /\ last_h \in {None} \cup (1 .. MaxHandle)
  /\ h \in {None} \cup Handles
  /\ idx \in 0 .. (Len(ALL_OCR_IDS) + 1)
  /\ result \in {"unset", "True", "False"}

\* ------------------------------------------------------------ properties
\* the latest repair call that returned had returned False
last_failed == last_result = "False"

\* a step of the loop head (a tick) on which main() sees a cursor change:
\* last_h is set, the sample is not None and differs from last_h
ChangeSeen == pc = "loop" /\ last_h # None /\ h' # None /\ h' # last_h
\* ... and the comparison `h != last_h` of main() is reached and true
ChangeDetected == ChangeSeen /\ ~Falsy(h')
\* the tick calls force_reload_cursors()
InvokesRepair == pc = "loop" /\ pc' = "load"

\* C1 (debounce): a change seen on a tick less than cooldown_sec after the
\* tick of the latest repair call does not call force_reload_cursors(); hence
\* two ticks that call it are at least cooldown_sec apart.
C1_Debounce ==
  [][ /\ (ChangeSeen /\ last_repair_now # None
            /\ now' - last_repair_now < cooldown_sec)
         => (pc' = "loop" /\ tickKind' # "repair")
      /\ (InvokesRepair /\ last_repair_now # None)
         => now' - last_repair_now >= cooldown_sec ]_vars

\* a change was absorbed inside the cooldown window of an earlier repair
C1_Witness ==
  /\ pc = "loop"
  /\ tickKind = "absorbed"
  /\ last_repair_now # None
  /\ now - last_repair_now < cooldown_sec
  /\ now > last_repair_now

\* C2 (debounce release): a change detected on a tick at or after the time of
\* the latest repair tick plus cooldown_sec calls force_reload_cursors(),
\* however many changes were absorbed in between.
C2_DebounceRelease ==
  [][ (ChangeDetected /\ last_repair_now # None
         /\ now' >= last_repair_now + cooldown_sec)
      => (InvokesRepair /\ tickKind' = "repair") ]_vars

\* a second repair call starts right after an absorbed change, the call
\* before it having returned False
C2_Witness ==
  /\ pc = "load"
  /\ last_repair_now # None
  /\ last_failed
  /\ now >= last_repair_now + cooldown_sec
  /\ prev_kind = "absorbed"

\* C3 as stated (first sample): the tick that receives the first non-None
\* sample records it as last_h and calls no repair, whatever its value.
C3_FirstSampleAsStated ==
  [][ (pc = "loop" /\ last_h = None /\ ~seen /\ h' # None)
      => (last_h' = h' /\ pc' = "loop") ]_vars

\* C3 amended: the tick that receives the first sample that is neither None
\* nor 0 (the loop still has last_h = None) records it as last_h, leaves the
\* deadline alone and calls no repair; a sample of 0 is skipped like None.
C3_FirstSample ==
  [][ /\ (pc = "loop" /\ last_h = None /\ ~Falsy(h'))
         => (last_h' = h' /\ pc' = "loop" /\ tickKind' = "first"
             /\ UNCHANGED cooldown_until)
      /\ (pc = "loop" /\ last_h = None /\ h' = 0)
         => (last_h' = None /\ pc' = "loop") ]_vars

\* the first valid sample was recorded after a NULL handle had been skipped
C3_Witness ==
  /\ tickKind = "first"
  /\ last_h = h
  /\ prev_h = 0
  /\ pc = "loop"

\* C4 (hidden cursor): a tick whose sample is None changes neither last_h nor
\* cooldown_until and calls no repair; the sample X that follows None samples
\* while last_h = X leaves last_h = X and calls no repair.
C4_HiddenStability ==
  [][ /\ (pc = "loop" /\ h' = None)
         => (UNCHANGED loopState /\ pc' = "loop")
      /\ (pc = "loop" /\ h = None /\ last_h # None /\ h' = last_h)
         => (last_h' = last_h /\ pc' = "loop"
             /\ UNCHANGED cooldown_until) ]_vars

\* X, None, X: the identity came back after a hidden tick, the loop tracking
C4_Witness ==
  /\ tickKind = "same"
  /\ prev_kind = "skip"
  /\ prev_h = None
  /\ last_h = h

\* C5: once last_h holds a handle it is never None again.
C5_NeverUninitializedAgain == [][ last_h # None => last_h' # None ]_vars

\* tracking survived a repair call that failed and a skipped tick after it
C5_Witness ==
  /\ last_h # None
  /\ tickKind = "skip"
  /\ last_repair_now # None

\* C6 (best effort): when force_reload_cursors() returns after the arrow was
\* loaded, the loop went over all of ALL_OCR_IDS (one CopyIcon for each
\* role, SetSystemCursor calls only with copies), the reload was issued, and
\* the result is True if the reload succeeded, whichever installs failed.
C6_BestEffort ==
  (pc = "ret" /\ arrow = 1) =>
    /\ nCopy = Len(ALL_OCR_IDS)
    /\ idx = Len(ALL_OCR_IDS) + 1
    /\ nInstall <= nCopy
    /\ installFailed => nInstall > 0
    /\ reloaded # "no"
    /\ (reloaded = "ok" => result = "True")

\* a repair call returned True although some installs failed
C6_Witness ==
  /\ pc = "ret"
  /\ arrow = 1
  /\ installFailed
  /\ nInstall = Len(ALL_OCR_IDS)
  /\ result = "True"

\* C7: force_reload_cursors() returns False exactly when LoadCursorW failed
\* or SystemParametersInfoW failed, and True otherwise.
C7_ResultIff ==
  pc = "ret" =>
    /\ result \in {"True", "False"}
    /\ (result = "False") <=> (arrow = 0 \/ reloaded = "fail")
    /\ (arrow = 1 /\ reloaded = "ok") => result = "True"

\* True was returned although copies and installs failed
C7_Witness ==
  /\ pc = "ret"
  /\ result = "True"
  /\ nInstall < nCopy
  /\ installFailed

\* repair is called only by a tick that tracks and sampled a different handle
RepairOnlyOnChange ==
  InvokesRepair => (last_h # None /\ h' # None /\ h' # last_h)

\* C8 as stated: repair only on a change, and no tick of a run of consecutive
\* ticks with one and the same sampled identity calls repair.
C8_SameRunAsStated ==
  [][ /\ RepairOnlyOnChange
      /\ (pc = "loop" /\ h # None /\ h # 0 /\ h' = h)
         => (tickKind # "repair" /\ pc' = "loop"
             /\ UNCHANGED loopState) ]_vars

\* C8 amended: repair only on a change, and on every tick of a run whose
\* samples equal the last_h the run starts with, no repair is called and
\* last_h and cooldown_until keep their values.
C8_SameRun ==
  [][ /\ RepairOnlyOnChange
      /\ (pc = "loop" /\ h' # None /\ h' = last_h)
         => (pc' = "loop" /\ tickKind' = "same" /\ UNCHANGED loopState) ]_vars

\* the second tick in a row that sampled the tracked identity
C8_Witness ==
  /\ tickKind = "same"
  /\ prev_kind = "same"
  /\ prev_h = h
  /\ last_h = h

\* C9: the loop state and the ticks that call repair are those of DetLoop,
\* which never sees a return value of force_reload_cursors(); the deadline is
\* now + cooldown_sec after a call that returned False as after one that
\* returned True.
C9_OutcomeBlind ==
  /\ pc = "loop" => /\ shadow.last = last_h
                    /\ shadow.until = cooldown_until
  /\ shadow.repair <=> tickKind = "repair"
  /\ (pc = "loop" /\ tickKind = "repair") => cooldown_until = now + cooldown_sec

\* a tick after a repair call that had returned False
C9_Witness ==
  /\ pc = "loop"
  /\ tickKind = "repair"
  /\ cooldown_until = now + cooldown_sec
  /\ last_failed

\* C10: whatever a tick meets, control comes back to the head of the loop,
\* and the loop goes on starting ticks: it stops nowhere before the clock
\* has reached the end of the explored time.
C10_LoopNeverStops ==
  /\ (pc # "loop") ~> (pc = "loop")
  /\ <>[](pc = "loop" /\ clock + poll_interval_sec > MaxClock)

\* the loop is at its head again after a repair call that failed
C10_Witness ==
  /\ pc = "loop"
  /\ last_failed
  /\ tickKind = "skip"
  /\ prev_kind = "repair"

\* the tick took the `continue` of `if not h` and changed nothing
Skipped == pc' = "loop" /\ tickKind' = "skip" /\ UNCHANGED loopState
\* the tick's sample initialises last_h, or is compared with last_h and
\* stored (at once, or when the repair call it made has returned)
Processed ==
  \/ last_h = None /\ last_h' = h' /\ pc' = "loop"
  \/ last_h # None /\ pc' = "loop" /\ last_h' = h'
  \/ last_h # None /\ pc' = "load" /\ h' # last_h

\* C11 as stated: a tick is skipped exactly when GetCursorInfo failed or did
\* not report CURSOR_SHOWING; every other tick processes its sample, the
\* handle 0 included.
C11_NoSignalAsStated ==
  [][ /\ pc = "loop" => (Skipped <=> ~signal')
      /\ (pc = "loop" /\ signal') => Processed
      /\ pc = "ret" => last_h' = h ]_vars

\* C11 amended: a tick is skipped exactly when GetCursorInfo failed, did not
\* report CURSOR_SHOWING, or reported the handle 0; get_cursor_handle() gives
\* None exactly in the first two cases, and every sample of a non-zero handle
\* is processed on its tick.
C11_NoSignal ==
  [][ /\ pc = "loop" => (Skipped <=> (~signal' \/ h' = 0))
      /\ pc = "loop" => (h' = None <=> ~signal')
      /\ (pc = "loop" /\ signal' /\ h' # 0) => Processed
      /\ pc = "ret" => last_h' = h ]_vars

\* the NULL handle of a showing cursor was skipped while the loop tracks
C11_Witness ==
  /\ signal
  /\ h = 0
  /\ tickKind = "skip"
  /\ last_h # None

\* C12 as stated: every iteration of the for loop makes one SetSystemCursor
\* call, for its role, with the copy made in that iteration.
C12_OneInstallPerRoleAsStated ==
  [][ (pc = "roles" /\ idx <= Len(ALL_OCR_IDS))
      => /\ copy' # 0 /\ copy' # arrow
         /\ installed' = <<copy', ALL_OCR_IDS[idx]>>
         /\ nInstall' = nInstall + 1 ]_vars

\* C12 amended: every iteration visits the next role once; when its CopyIcon
\* succeeded it makes one SetSystemCursor call, for that role, with the copy
\* of that iteration (not the arrow, not the copy of the iteration before);
\* when CopyIcon failed it makes none.
C12_OneInstallPerRole ==
  [][ (pc = "roles" /\ idx <= Len(ALL_OCR_IDS))
      => /\ idx' = idx + 1 /\ nCopy' = nCopy + 1
         /\ Cardinality({ALL_OCR_IDS[i] : i \in 1 .. idx}) = idx
         /\ copy' # 0 => /\ installed' = <<copy', ALL_OCR_IDS[idx]>>
                         /\ copy' # arrow /\ copy' # copy
                         /\ nInstall' = nInstall + 1
         /\ copy' = 0 => /\ installed' = <<>>
                         /\ nInstall' = nInstall ]_vars

\* a call returned after some roles were installed and some were not
C12_Witness ==
  /\ pc = "ret"
  /\ arrow = 1
  /\ nInstall > 0
  /\ nInstall < Len(ALL_OCR_IDS)
  /\ installed = <<copy, ALL_OCR_IDS[Len(ALL_OCR_IDS)]>>

\* C13: the reload is issued once, when the for loop has gone over all of
\* ALL_OCR_IDS, and the only step after it is the return to main().
C13_TwoPhase ==
  [][ /\ (reloaded = "no" /\ reloaded' # "no")
         => /\ pc = "roles" /\ pc' = "ret"
            /\ idx = Len(ALL_OCR_IDS) + 1
            /\ nCopy = Len(ALL_OCR_IDS)
            /\ UNCHANGED <<nCopy, nInstall, copy, installed>>
      /\ reloaded # "no"
         => (pc = "ret" /\ pc' = "loop" /\ reloaded' = "no") ]_vars

\* the reload was issued, and failed, after thirteen installs
C13_Witness ==
  /\ pc = "ret"
  /\ reloaded = "fail"
  /\ nCopy = Len(ALL_OCR_IDS)
  /\ nInstall = Len(ALL_OCR_IDS)

\* C14: after the first ticks sampled A, B, A with the change B -> A inside
\* the cooldown, last_h is A and force_reload_cursors() was called at most
\* once; a fourth sample A is then no change.
C14_Oscillation ==
  /\ osc \in {3, 4} => /\ repair_calls <= 1
                       /\ pc = "loop"
                       /\ last_h = h
  /\ osc = 3 => tickKind = "absorbed"
  /\ osc = 4 => tickKind = "same"

\* A, B, A, A was sampled and the one repair call was made
C14_Witness ==
  /\ osc = 4
  /\ repair_calls = 1
  /\ last_h = h

\* C15: in the scenario None, A, A, B, A, A read 20 ms apart, tick 1 sets
\* last_h without repair, tick 3 calls repair, tick 4 is absorbed, and at the
\* end one repair call was made and last_h is A.
C15_Scenario ==
  /\ scen = 1 => (last_h = None /\ repair_calls = 0)
  /\ scen = 2 => (tickKind = "first" /\ last_h = h /\ repair_calls = 0)
  /\ scen = 3 => (last_h = h /\ repair_calls = 0 /\ pc = "loop")
  /\ scen = 4 => (tickKind = "repair" /\ (pc = "loop" => repair_calls = 1))
  /\ scen = 5 => (tickKind = "absorbed" /\ repair_calls = 1 /\ pc = "loop")
  /\ scen = 6 => (repair_calls = 1 /\ last_h = h /\ pc = "loop"
                  /\ now = 6 * poll_interval_sec)

\* the scenario was run to its last tick
C15_Witness ==
  /\ scen = 6
  /\ last_h = h
  /\ repair_calls = 1

\* a tick with this sample calls no repair and leaves the loop state alone
Quiet == pc' = "loop" /\ UNCHANGED loopState

\* C16 as stated: at the end of every tick with a non-None sample last_h is
\* that sample, and ticks that sample last_h or None call no repair.
C16_TracksEverySampleAsStated ==
  /\ []((pc = "loop" /\ tickKind # "start" /\ h # None) => last_h = h)
  /\ [][ (pc = "loop" /\ last_h # None /\ (h' = last_h \/ h' = None))
         => Quiet ]_vars

\* C16 amended: at the end of every tick with a sample that is neither None
\* nor 0 last_h is that sample, repaired or absorbed; ticks that sample
\* last_h, None or 0 call no repair, also after the cooldown has expired.
C16_TracksEverySample ==
  /\ []((pc = "loop" /\ ~Falsy(h)) => last_h = h)
  /\ [][ (pc = "loop" /\ last_h # None /\ (h' = last_h \/ Falsy(h')))
         => Quiet ]_vars

\* the identity of an absorbed change is sampled again after the deadline
C16_Witness ==
  /\ tickKind = "same"
  /\ prev_kind = "absorbed"
  /\ now >= cooldown_until
  /\ repair_calls = 1
  /\ last_h = h

\* C17 as stated: the deadline is the time the repair call returned plus
\* cooldown_sec, and a change seen less than cooldown_sec after that return
\* calls no repair.
C17_DeadlineFromReturnAsStated ==
  [][ /\ pc = "ret" => cooldown_until' = clock + cooldown_sec
      /\ (ChangeSeen /\ last_repair_ret # None
            /\ now' - last_repair_ret < cooldown_sec)
         => pc' = "loop" ]_vars

\* C17 amended: the deadline is the tick's `now`, read before the repair
\* call, plus cooldown_sec; a change seen less than cooldown_sec after that
\* `now` calls no repair, however long the call took.
C17_DeadlineFromTick ==
  [][ /\ pc = "ret" => /\ cooldown_until' = now + cooldown_sec
                       /\ cooldown_until' <= clock + cooldown_sec
      /\ (ChangeSeen /\ last_repair_ret # None
            /\ now' - last_repair_now < cooldown_sec)
         => (pc' = "loop" /\ cooldown_until' = last_repair_now + cooldown_sec)
    ]_vars

\* a change was absorbed after a repair call that had taken time
C17_Witness ==
  /\ pc = "loop"
  /\ tickKind = "absorbed"
  /\ last_repair_ret # None
  /\ last_repair_ret > last_repair_now

\* C18: the first change the loop detects calls force_reload_cursors().
C18_FirstChangeRepairs ==
  [][ (ChangeDetected /\ ~changed) => (InvokesRepair /\ cooldown_until = 0)
    ]_vars

\* the first repair call starts on the second tick of the process
C18_Witness ==
  /\ pc = "load"
  /\ repair_calls = 0
  /\ now = 2 * poll_interval_sec

\* C19: cooldown_until changes only when a repair call returns, and never
\* decreases.
C19_DeadlineFrame ==
  [][ /\ cooldown_until' # cooldown_until
         => (pc = "ret" /\ tickKind = "repair")
      /\ cooldown_until' >= cooldown_until ]_vars

\* two changes in a row were absorbed and the deadline is still the one set
\* by the repair before them
C19_Witness ==
  /\ tickKind = "absorbed"
  /\ prev_kind = "absorbed"
  /\ last_repair_now # None
  /\ cooldown_until = last_repair_now + cooldown_sec

\* C20: a call whose LoadCursorW failed returns False having made no
\* CopyIcon, no SetSystemCursor and no SystemParametersInfoW call.
C20_ArrowFailure ==
  (pc \in {"roles", "ret"} /\ arrow = 0) =>
    /\ pc = "ret"
    /\ result = "False"
    /\ nCopy = 0
    /\ nInstall = 0
    /\ installed = <<>>
    /\ copy = None
    /\ reloaded = "no"

\* the second repair call failed to load the arrow
C20_Witness ==
  /\ pc = "ret"
  /\ arrow = 0
  /\ result = "False"
  /\ repair_calls = 2
====
